---- MODULE Spec2Model ----
(***************************************************************************)
(* xmk, an automated build tool: model of parse_file and of the resolver   *)
(* and executor (execute_commands, ex_build_target, update_needed,         *)
(* file_exists, target_exists, fatal_error).                               *)
(*                                                                         *)
(* The parsed model store (target table, dependency table, command table,  *)
(* build target), the configuration and the filesystem are drawn from      *)
(* bounded sets in Init.  The recursion of execute_commands and            *)
(* ex_build_target is a stack of frames; each action is one stretch of     *)
(* code between two points where the outcome of a spawned command or of a  *)
(* recursive call is awaited.                                              *)
(*                                                                         *)
(* A second specification, SpecParse, models the tokenizer and the rule    *)
(* engine (check_syntax, get_word, expand_define, get_dependency,          *)
(* check_rule, handle_list and the callbacks that fill the model store)    *)
(* on texts drawn from bounded sets.  There a word is a sequence of        *)
(* characters and the command table holds the text of the commands.        *)
(*                                                                         *)
(* A third specification, SpecKeyword, applies the test of check_rule's    *)
(* KEYWORD step, as written in src/unnamed/part_000 and in src/XMK.C, to   *)
(* one word and one keyword.                                               *)
(***************************************************************************)
EXTENDS Integers, Sequences, FiniteSets, TLC

VARIABLES
    platform,      \* "WIN32" or "POSIX": which #ifdef branch was compiled
    preprocess,    \* config.preprocess
    build_target,  \* static char *build_target (NULL when no build directive)
    targets,       \* *syntax_rules[TARGET].list
    deps,          \* syntax_rules[DEPENDS_ON].list, one list per target
    cmds,          \* syntax_rules[CREATED_USING].list: TRUE = live, FALSE = freed
    fs,            \* the filesystem: name -> [exists, mtime]
    stack,         \* frames of ex_build_target, innermost last
    pc,            \* "start", "exec", "done" (exit or return from main), "crashed"
    exit_code,     \* the exit status of the process, meaningful when pc = "done"
    err,           \* which FATAL_ERROR ended the run, "none" otherwise
    log,           \* history: calls, returns and spawned commands, in order
    file_buffer,   \* static char *file_buffer, the text being parsed
    from,          \* size_t from of check_syntax: the read position, 0-based
    engine,        \* state and rule_checking of check_syntax and the statics
                   \* of check_rule (step_i, keyword_i, recipe_i, recursion_level)
    defines,       \* static struct defines and the static state of add_define
    current_scope, \* static char *current_scope
    keyword_step,  \* one KEYWORD step of check_rule taken alone (SpecKeyword)
    crossed,       \* history: a newline was skipped since the last word returned
    words,         \* history: the words get_word returned to check_syntax
    allocated,     \* the size malloc or realloc was last asked for file_buffer
    first_run      \* history: the tables of the run whose output is being parsed

\* the variables of the tokenizer and of the rule engine
pvars == <<file_buffer, from, engine, defines, current_scope, crossed, words,
           first_run, keyword_step, allocated>>

vars == <<platform, preprocess, build_target, targets, deps, cmds, fs,
          stack, pc, exit_code, err, log, pvars>>

\* ------------------------------------------------------------------ bounds
MaxDeps == 2    \* longest dependency list drawn in Init
MaxCmds == 2    \* longest command list drawn in Init
MaxExit == 2    \* a spawned command returns a status in 0..MaxExit
MaxTime == 1    \* initial modification times are drawn from 0..MaxTime

\* The file names of the model.  A target only depends on names that come
\* later in this order, which keeps the dependency graph acyclic (the
\* program does no cycle detection).  The last name is always a plain file.
Names == <<"app", "app.o", "lib.o", "src.c">>

NameSet == {Names[k] : k \in 1..Len(Names)}

NULL == "<NULL>"

\* The null pointer where the tokenizer and the rule engine hold a word (a
\* word is a sequence of one-character strings, so no word equals it).
NoWord == <<NULL>>

\* an entry of a table that realloc left uninitialised
Garbage == << <<"<garbage>">> >>

\* enum { MAX_RECURSION = 2 } of check_rule
MAX_RECURSION == 2

\* the statics of check_syntax and check_rule before the first word
EngineInit ==
    [state |-> "SEARCHING", rule_checking |-> "none", recursion_level |-> 0,
     step_i |-> <<0, 0>>, keyword_i |-> <<0, 0>>, recipe_i |-> <<0, 0>>]

\* static struct defines, zero-initialised, and add_define's static state
DefinesInit ==
    [names |-> <<>>, values |-> <<>>, n |-> 0, selected_i |-> 0,
     state |-> "GET_NAME"]

\* first_run when the text being parsed is not the output of an earlier run
NoRun == [emitted |-> FALSE, targets |-> <<>>, deps |-> <<>>, cmds |-> <<>>]

\* keyword_step where no KEYWORD step is looked at in isolation
NoStep == [unit |-> "none", word |-> <<>>, keyword |-> <<>>, returned |-> "none"]

\* the tokenizer and the rule engine before check_syntax reads a text; the
\* executor never touches them
ParserIdle ==
    /\ file_buffer = <<>>
    /\ from = 0
    /\ engine = EngineInit
    /\ defines = DefinesInit
    /\ current_scope = NoWord
    /\ crossed = FALSE
    /\ words = <<>>
    /\ first_run = NoRun
    /\ keyword_step = NoStep
    /\ allocated = 0

Rank(n) == CHOOSE k \in 1..Len(Names) : Names[k] = n

\* ---------------------------------------------------------------- helpers
Max(S) == CHOOSE x \in S : \A y \in S : y <= x

Top == stack[Len(stack)]

\* static bool file_exists(const char *file)
file_exists_AlwaysTrue(file) == TRUE

file_exists(file) == fs[file].exists

\* static bool target_exists(const char *target, size_t *index)
target_exists(target) == \E k \in 1..Len(targets) : targets[k] = target

\* the index target_exists stores through its second parameter: first match
target_index(target) ==
    CHOOSE k \in 1..Len(targets) :
        /\ targets[k] = target
        /\ \A j \in 1..(k - 1) : targets[j] # target

update_needed_Never(target, dep) == FALSE

\* static bool update_needed(const char *target, const char *dep): the
\* WIN32 version compares the last write times when both files can be
\* opened (GetFileTime is taken to succeed), the POSIX version is a stub
update_needed(target, dep) ==
    IF platform = "WIN32"
    THEN IF ~fs[dep].exists \/ ~fs[target].exists
         THEN TRUE
         ELSE fs[dep].mtime > fs[target].mtime
    ELSE TRUE

\* the time a spawned command stamps on a file it writes: later than all
Now == 1 + Max({0} \cup {fs[n].mtime : n \in NameSet})

\* an entry of the history: kind "enter" and "leave" for a call of
\* ex_build_target on target t (up: the update_pending it computed), kind
\* "cmd" for command i of t spawned with exit status rc (live: the command
\* string had not been freed, wrote: the command wrote the file of t), kind
\* "crash" for a run ended by the allocator
Event(kind, t, i, rc, up, live, wrote) ==
    [kind |-> kind, t |-> t, i |-> i, rc |-> rc, up |-> up, live |-> live,
     wrote |-> wrote]

\* ------------------------------------------------------------------- Init
\* dependency lists without repetition, at most MaxDeps long
DepLists(S) ==
    UNION {{q \in [1..n -> S] : \A a, b \in 1..n : a # b => q[a] # q[b]} :
            n \in 0..MaxDeps}

LaterNames(k) == {Names[j] : j \in (k + 1)..Len(Names)}

\* the names the traversal can reach from the first name of the table
RECURSIVE ReachFrom(_, _, _)
ReachFrom(tbl, dl, n) ==
    IF \E k \in 1..Len(tbl) : tbl[k] = n
    THEN LET k == CHOOSE j \in 1..Len(tbl) : tbl[j] = n
         IN  {n} \cup UNION {ReachFrom(tbl, dl, dl[k][d]) : d \in 1..Len(dl[k])}
    ELSE {n}

\* a file of the initial filesystem; a missing file has no time
FileStates ==
    {[exists |-> FALSE, mtime |-> 0]} \cup
    {[exists |-> TRUE, mtime |-> m] : m \in 0..MaxTime}

\* Init: the state when parse_file is entered.  The tables are those
\* create_basic_tree and handle_list leave: one dependency list and one
\* command list per target, every command live.  Names the traversal cannot
\* reach are never looked at and are left out of the filesystem; the POSIX
\* build never reads a modification time, so its files all carry time 0.
Init ==
    /\ platform \in {"WIN32", "POSIX"}
    /\ preprocess \in BOOLEAN
    /\ build_target \in {NULL, Names[1]}
    /\ \E nt \in 0..(Len(Names) - 1) :
        /\ targets = SubSeq(Names, 1, nt)
        /\ deps \in {dl \in [1..nt -> DepLists(NameSet)] :
                        /\ \A k \in 1..nt : \A d \in 1..Len(dl[k]) :
                                dl[k][d] \in LaterNames(k)
                        /\ \A k \in 1..nt :
                                Names[k] \in ReachFrom(SubSeq(Names, 1, nt), dl, Names[1])}
        /\ cmds \in {[k \in 1..nt |-> [i \in 1..nc[k] |-> TRUE]] :
                        nc \in [1..nt -> 0..MaxCmds]}
    /\ fs \in {f \in [NameSet -> FileStates] :
                /\ \A n \in NameSet \ ReachFrom(targets, deps, Names[1]) : ~f[n].exists
                /\ platform = "POSIX" => \A n \in NameSet : f[n].mtime = 0}
    /\ stack = <<>>
    /\ pc = "start"
    /\ exit_code = 0
    /\ err = "none"
    /\ log = <<>>
    /\ ParserIdle

\* ---------------------------------------------------------------- actions
Fatal_Continues(kind) ==
    /\ err' = kind
    /\ UNCHANGED <<pc, exit_code>>

\* FATAL_ERROR: fatal_error prints, calls cleanup and exit(1)
Fatal(kind) ==
    /\ pc' = "done"
    /\ exit_code' = 1
    /\ err' = kind

Frame_NeverPending(target, idx) ==
    [t |-> target, idx |-> idx, dep |-> 0, up |-> FALSE,
     i |-> 0, phase |-> "deps", seen |-> FALSE, built |-> FALSE]

\* A frame of ex_build_target: t and idx are its parameters build_target and
\* target_idx, dep and i its loop counters, up its local update_pending and
\* phase the loop it is in.  Two history fields serve the properties only:
\* seen (update_needed returned true for a dependency of this call) and
\* built (a dependency of this call was a target whose update was pending).
Frame(target, idx) ==
    [t |-> target, idx |-> idx, dep |-> 0, up |-> ~file_exists(target),
     i |-> 0, phase |-> "deps", seen |-> FALSE, built |-> FALSE]

\* `dep < target_deps`, the condition of the dependency loop
DepsLeft_SkipsLast(frame) == frame.dep < Len(deps[frame.idx]) - 1

DepsLeft(frame) == frame.dep < Len(deps[frame.idx])

\* The caller's side of `execute_commands(dependency, &update_pending)`
\* once the call has returned: update_needed is evaluated on the filesystem
\* as it is then, and the loop moves to the next dependency.
Resume(frame) ==
    LET dependency == deps[frame.idx][frame.dep + 1]
    IN  [frame EXCEPT !.dep = frame.dep + 1,
                      !.up = IF ~update_needed(frame.t, dependency) THEN frame.up
                             ELSE IF ~frame.up THEN TRUE ELSE frame.up,
                      !.seen = frame.seen \/ update_needed(frame.t, dependency)]

\* ex_build_target returns (or execute_commands returns 0 for a plain
\* file) with value ret: the caller ignores the value and goes on with its
\* dependency loop, or, for the outermost call, parse_file and main return
\* it as the exit status of the process.
Return(stk, ret) ==
    IF stk = <<>>
    THEN /\ stack' = <<>>
         /\ pc' = "done"
         /\ exit_code' = ret
         /\ err' = "none"
    ELSE /\ stack' = [stk EXCEPT ![Len(stk)] = Resume(stk[Len(stk)])]
         /\ pc' = "exec"
         /\ UNCHANGED <<exit_code, err>>

\* static int ex_build_target(build_target, target_idx, parent_update_pending)
\* from its entry to its dependency loop, called with the frames stk of its
\* callers: update_pending starts as !file_exists(build_target), and a
\* target with neither dependencies nor commands is fatal.  (The tables
\* tested at lines 1695 and 1711 are allocated whenever a target exists.)
EnterTarget(target, idx, stk) ==
    /\ log' = Append(log, Event("enter", target, 0, 0, FALSE, TRUE, FALSE))
    /\ IF Len(deps[idx]) = 0 /\ Len(cmds[idx]) = 0
       THEN /\ Fatal("empty_target")
            /\ stack' = stk
       ELSE /\ stack' = Append(stk, Frame(target, idx))
            /\ pc' = "exec"
            /\ UNCHANGED <<exit_code, err>>

\* static int execute_commands(const char *target, bool *parent_update_pending)
\* (cleanup returns at once and frees nothing)
Call(target, stk) ==
    IF target_exists(target)
    THEN EnterTarget(target, target_index(target), stk)
    ELSE IF ~file_exists(target)
    THEN /\ Fatal("unknown_target")
         /\ stack' = stk
         /\ UNCHANGED log
    ELSE /\ Return(stk, 0)
         /\ UNCHANGED log

ParseFile_IgnoresPreprocess ==
    /\ pc = "start"
    /\ IF build_target # NULL
       THEN Call(build_target, <<>>)
       ELSE /\ Fatal("missing_build")
            /\ UNCHANGED <<stack, log>>
    /\ UNCHANGED <<platform, preprocess, build_target, targets, deps, cmds, fs>>
    /\ UNCHANGED pvars

ParseFile_SilentFailure ==
    /\ pc = "start"
    /\ IF preprocess
       THEN /\ pc' = "done"
            /\ exit_code' = 0
            /\ UNCHANGED <<stack, err, log>>
       ELSE IF build_target # NULL
       THEN Call(build_target, <<>>)
       ELSE /\ pc' = "done"
            /\ exit_code' = 1
            /\ UNCHANGED <<stack, err, log>>
    /\ UNCHANGED <<platform, preprocess, build_target, targets, deps, cmds, fs>>
    /\ UNCHANGED pvars

\* static int parse_file(void), check_syntax having returned 0
ParseFile ==
    /\ pc = "start"
    /\ IF preprocess
       THEN /\ pc' = "done"
            /\ exit_code' = 0
            /\ UNCHANGED <<stack, err, log>>
       ELSE IF build_target # NULL
       THEN Call(build_target, <<>>)
       ELSE /\ Fatal("missing_build")
            /\ UNCHANGED <<stack, log>>
    /\ UNCHANGED <<platform, preprocess, build_target, targets, deps, cmds, fs>>
    /\ UNCHANGED pvars

\* ex_build_target, one turn of `for (dep = 0; dep < target_deps; dep++)`
CheckDependency ==
    /\ pc = "exec"
    /\ stack # <<>>
    /\ Top.phase = "deps"
    /\ DepsLeft(Top)
    /\ Call(deps[Top.idx][Top.dep + 1], stack)
    /\ UNCHANGED <<platform, preprocess, build_target, targets, deps, cmds, fs>>
    /\ UNCHANGED pvars

\* ex_build_target after the dependency loop: the result is written through
\* parent_update_pending, then either the command loop starts or the
\* function returns 1
DepsResolved ==
    /\ pc = "exec"
    /\ stack # <<>>
    /\ Top.phase = "deps"
    /\ ~DepsLeft(Top)
    /\ LET n == Len(stack)
           written == IF n > 1
                      THEN [stack EXCEPT ![n - 1].up = Top.up,
                                         ![n - 1].built = @ \/ Top.up]
                      ELSE stack
       IN  IF Top.up
           THEN /\ stack' = [written EXCEPT ![n].phase = "cmds"]
                /\ UNCHANGED <<pc, exit_code, err, log>>
           ELSE /\ Return(SubSeq(written, 1, n - 1), 1)
                /\ log' = Append(log, Event("leave", Top.t, 0, 0, FALSE, TRUE, FALSE))
    /\ UNCHANGED <<platform, preprocess, build_target, targets, deps, cmds, fs>>
    /\ UNCHANGED pvars

\* ex_build_target, one turn of `for (i = 0; i < target_commands; i++)`:
\* the command is printed, spawned and freed, and a nonzero status is fatal.
\* The spawned command returns any status; one that returns 0 either writes
\* the target's file or leaves the filesystem alone, one that fails leaves
\* it alone (the run ends there and the filesystem is not read again).  A command that was freed in an
\* earlier call on the same target is a dangling pointer: the turn either
\* goes as if the string were intact, or the process is killed before the
\* command is spawned or when it is freed again.  (No entry of a command
\* list is NULL, so the branch of line 1768 is not taken.)
RunCommand ==
    /\ pc = "exec"
    /\ stack # <<>>
    /\ Top.phase = "cmds"
    /\ Top.i < Len(cmds[Top.idx])
    /\ LET n == Len(stack)
           i == Top.i + 1
           live == cmds[Top.idx][i]
       IN  \E crash \in IF live THEN {"no"} ELSE {"no", "before", "after"} :
             IF crash = "before"
             THEN /\ pc' = "crashed"
                  /\ log' = Append(log, Event("crash", Top.t, i, 0, TRUE, live, FALSE))
                  /\ UNCHANGED <<stack, exit_code, err, cmds, fs>>
             ELSE \E rc \in 0..MaxExit, written \in BOOLEAN :
                  /\ rc # 0 => ~written
                  /\ fs' = IF written
                           THEN [fs EXCEPT ![Top.t] = [exists |-> TRUE, mtime |-> Now]]
                           ELSE fs
                  /\ cmds' = [cmds EXCEPT ![Top.idx][i] = FALSE]
                  /\ log' = Append(log, Event("cmd", Top.t, i, rc, TRUE, live, written))
                  /\ IF crash = "after"
                     THEN /\ pc' = "crashed"
                          /\ UNCHANGED <<stack, exit_code, err>>
                     ELSE IF rc # 0
                     THEN /\ Fatal("command_failed")
                          /\ UNCHANGED stack
                     ELSE /\ stack' = [stack EXCEPT ![n].i = i]
                          /\ UNCHANGED <<pc, exit_code, err>>
    /\ UNCHANGED <<platform, preprocess, build_target, targets, deps>>
    /\ UNCHANGED pvars

PostBuild_NoCheck ==
    /\ pc = "exec"
    /\ stack # <<>>
    /\ Top.phase = "cmds"
    /\ Top.i = Len(cmds[Top.idx])
    /\ Return(SubSeq(stack, 1, Len(stack) - 1), 1)
    /\ log' = Append(log, Event("leave", Top.t, 0, 0, TRUE, TRUE, FALSE))
    /\ UNCHANGED <<platform, preprocess, build_target, targets, deps, cmds, fs>>
    /\ UNCHANGED pvars

\* ex_build_target after the command loop: the target's file must exist,
\* then the function returns 1
PostBuild ==
    /\ pc = "exec"
    /\ stack # <<>>
    /\ Top.phase = "cmds"
    /\ Top.i = Len(cmds[Top.idx])
    /\ IF ~file_exists(Top.t)
       THEN /\ Fatal("post_build_missing")
            /\ UNCHANGED <<stack, log>>
       ELSE /\ Return(SubSeq(stack, 1, Len(stack) - 1), 1)
            /\ log' = Append(log, Event("leave", Top.t, 0, 0, TRUE, TRUE, FALSE))
    /\ UNCHANGED <<platform, preprocess, build_target, targets, deps, cmds, fs>>
    /\ UNCHANGED pvars

Next ==
    \/ ParseFile
    \/ CheckDependency
    \/ DepsResolved
    \/ RunCommand
    \/ PostBuild

Spec == Init /\ [][Next]_vars

\* main runs in one thread and build() waits for its command: a step that
\* can be taken is taken
SpecFair == Spec /\ WF_vars(Next)

TypeOK ==
    /\ platform \in {"WIN32", "POSIX"}
    /\ pc \in {"start", "exec", "done", "crashed"}
    /\ Len(deps) = Len(targets)
    /\ Len(cmds) = Len(targets)
    /\ \A k \in 1..Len(stack) : stack[k].phase \in {"deps", "cmds"}

\* ---------------------------------------------------------------- tokenizer
\* A text is a sequence of characters (one-character strings) and a read
\* position is 0-based as in the code; the text is followed by its
\* terminating '\0'.
NUL == ""

\* static char word[255] of get_word
WordSize == 255

\* static char ext[10] of get_extension
ExtSize == 10

Blank == {" ", "\t", "\n", "\r"}

Digits == {"0", "1", "2", "3", "4", "5", "6", "7", "8", "9"}

\* the one element of a set of one element: The({e(x) : x \in {v}}) is
\* e(v), with v worked out once
The(S) == CHOOSE x \in S : TRUE

\* buffer[p]
At(buffer, p) == IF p < Len(buffer) THEN buffer[p + 1] ELSE NUL

\* what one call of get_word comes to: a word returned to check_syntax
\* (kind "word"), NULL at the end of the text ("eof"), a define that is to
\* be expanded at orig_from ("expand"), a FATAL_ERROR ("fatal") or
\* undefined behaviour ("undefined"); nl is *newline_detected
Lexed(kind, word, pos, nl, why) ==
    [kind |-> kind, word |-> word, pos |-> pos, nl |-> nl, why |-> why]

\* get_word, the loop that skips blanks and comments
RECURSIVE SkipBlanks(_, _, _, _)
SkipBlanks(buffer, p, comment, nl) ==
    LET ch == At(buffer, p)
    IN  IF ch = NUL THEN [eof |-> TRUE, pos |-> p, nl |-> nl]
        ELSE IF ch = "#" THEN SkipBlanks(buffer, p + 1, TRUE, nl)
        ELSE IF ch = "\n" THEN SkipBlanks(buffer, p + 1, FALSE, TRUE)
        ELSE IF ch \in {"\r", "\t", " "} THEN SkipBlanks(buffer, p + 1, comment, nl)
        ELSE IF ~comment THEN [eof |-> FALSE, pos |-> p, nl |-> nl]
        ELSE SkipBlanks(buffer, p + 1, comment, nl)

ReadWord_Stuck(buffer, p, quotes) ==
    [word |-> <<>>, pos |-> IF quotes THEN p - 1 ELSE p, past_end |-> FALSE]

\* get_word, the loop that copies the characters of a word from position p
\* on: it stops at the closing quote or at a blank, or when word[] is full,
\* and not at the terminating '\0', past which it goes on reading (past_end)
ReadWord(buffer, p, quotes) ==
    LET Stops(q) == \/ IF quotes THEN At(buffer, q) = "\"" ELSE At(buffer, q) \in Blank
                    \/ q - p >= WordSize - 1
                    \/ At(buffer, q) = NUL
        end == CHOOSE q \in p..Max({p, Len(buffer)}) :
                    Stops(q) /\ \A r \in p..(q - 1) : ~Stops(r)
    IN  [word |-> SubSeq(buffer, p + 1, end), pos |-> end,
         past_end |-> At(buffer, end) = NUL /\ end - p < WordSize - 1]

\* 1-based position of the first '.' of a word, Len(word) + 1 when it has none
RECURSIVE FirstDot(_, _)
FirstDot(word, k) ==
    IF k > Len(word) \/ word[k] = "." THEN k ELSE FirstDot(word, k + 1)

\* static const char *get_basename(const char *word)
get_basename(word) == SubSeq(word, 1, FirstDot(word, 1) - 1)

\* static const char *get_extension(const char *word): w stops at the first
\* '.' or at the terminator; w[1] is then read, which lies past the
\* terminator when the word has no '.'; strcpy into ext[10]
get_extension(word) ==
    LET k == FirstDot(word, 1)
        ext == IF k < Len(word) THEN SubSeq(word, k + 1, Len(word))
               ELSE SubSeq(word, k, Len(word))
    IN  IF k > Len(word) THEN [ub |-> TRUE, ext |-> <<>>]
        ELSE IF Len(ext) >= ExtSize THEN [ub |-> TRUE, ext |-> ext]
        ELSE [ub |-> FALSE, ext |-> ext]

\* strstr(word, sub) finds sub at or after the 1-based position k
RECURSIVE strstr(_, _, _)
strstr(word, sub, k) ==
    IF k + Len(sub) - 1 > Len(word) THEN FALSE
    ELSE IF SubSeq(word, k, k + Len(sub) - 1) = sub THEN TRUE
    ELSE strstr(word, sub, k + 1)

\* strtol(str, NULL, 0) of a string of decimal digits; the empty string is 0
RECURSIVE strtol(_)
strtol(str) ==
    IF str = <<>> THEN 0
    ELSE 10 * strtol(SubSeq(str, 1, Len(str) - 1))
         + (CHOOSE d \in 0..9 : <<"0", "1", "2", "3", "4", "5", "6", "7", "8", "9">>[d + 1]
                                    = str[Len(str)])

\* get_dependency, the loop over the letters that follow "$(dep": st is its
\* state and str is dep_i_str, to which a digit is added only when
\* dep_i_str_idx < strlen(dep_i_str), both being the number of digits stored
RECURSIVE ScanIndex(_, _, _, _)
ScanIndex(word, k, st, str) ==
    IF k > Len(word) THEN [valid |-> TRUE, str |-> str]
    ELSE LET letter == word[k]
         IN  IF st = "OPENING_BRACKET"
             THEN ScanIndex(word, k + 1, IF letter = "[" THEN "INDEX" ELSE st, str)
             ELSE IF st = "INDEX"
             THEN IF letter \in Digits
                  THEN ScanIndex(word, k + 1,
                                 IF At(word, k) = "]" THEN "CLOSING_BRACKET" ELSE st,
                                 IF Len(str) < Len(str) THEN Append(str, letter) ELSE str)
                  ELSE [valid |-> FALSE, str |-> str]
             ELSE ScanIndex(word, k + 1, st, str)

\* the built-in variables get_word compares a word with
W_target == <<"$", "(", "t", "a", "r", "g", "e", "t", ")">>

W_target_name == <<"$", "(", "t", "a", "r", "g", "e", "t", "_", "n", "a", "m", "e", ")">>

W_target_ext == <<"$", "(", "t", "a", "r", "g", "e", "t", "_", "e", "x", "t", ")">>

W_dep == <<"$", "(", "d", "e", "p">>

\* static const char *get_dependency(const char *word), called at read
\* position pos with *newline_detected = nl
get_dependency(word, pos, nl) ==
    LET s == ScanIndex(word, Len(W_dep) + 1, "OPENING_BRACKET", <<>>)
        dep_index == strtol(s.str)
    IN  IF ~s.valid THEN Lexed("fatal", word, pos, nl, "invalid_index")
        ELSE IF current_scope # NoWord /\ target_exists(current_scope)
        THEN LET i == target_index(current_scope)
             IN  IF deps = <<>>
                 THEN Lexed("fatal", word, pos, nl, "dependencies_not_allocated")
                 ELSE IF i > Len(deps)
                 THEN Lexed("undefined", word, pos, nl, "list_size_out_of_bounds")
                 ELSE IF deps[i] = <<>>
                 THEN Lexed("fatal", word, pos, nl, "no_dependencies")
                 ELSE IF deps[i] = Garbage
                 THEN Lexed("undefined", word, pos, nl, "list_size_uninitialized")
                 ELSE IF dep_index < Len(deps[i])
                 THEN Lexed("word", deps[i][dep_index + 1], pos, nl, "dep")
                 ELSE Lexed("fatal", word, pos, nl, "index_exceeds")
        ELSE Lexed("word", word, pos, nl, "literal")

\* bool is_define(const char *name): only the defines.n complete pairs
is_define(name) == \E k \in 1..defines.n : defines.names[k] = name

\* the index is_define stores in defines.selected_i: the first match, 0-based
selected_define(name) ==
    (CHOOSE k \in 1..defines.n :
        /\ defines.names[k] = name
        /\ \A j \in 1..(k - 1) : defines.names[j] # name) - 1

\* get_word from its label whitespaces_skipped on, s being what the loop
\* that skips the blanks came to and r what the loop that copies the word
\* came to
whitespaces_skipped(buffer, s, r) ==
    LET orig_from == s.pos
        quotes == At(buffer, orig_from) = "\""
        word == r.word
        end == IF quotes THEN r.pos + 1 ELSE r.pos
    IN  IF s.eof THEN Lexed("eof", NoWord, s.pos, s.nl, "end")
        ELSE IF r.past_end
        THEN Lexed("undefined", word, r.pos, s.nl, "read_past_end")
        ELSE IF Len(word) >= WordSize - 1
        THEN Lexed("fatal", word, r.pos, s.nl, "word_length")
        ELSE IF ~quotes /\ Len(word) > 1
        THEN IF word[1] = "$"
             THEN IF word[2] = "$"
                  THEN Lexed("word", Tail(word), end, s.nl, "escaped")
                  ELSE IF word[2] = "("
                  THEN IF word = W_target
                       THEN IF current_scope # NoWord
                            THEN Lexed("word", current_scope, end, s.nl, "target")
                            ELSE Lexed("fatal", word, end, s.nl, "outside_target_scope")
                       ELSE IF word = W_target_name
                       THEN IF current_scope # NoWord
                            THEN Lexed("word", get_basename(current_scope), end, s.nl, "target_name")
                            ELSE Lexed("fatal", word, end, s.nl, "outside_target_scope")
                       ELSE IF word = W_target_ext
                       THEN IF current_scope # NoWord
                            THEN IF get_extension(current_scope).ub
                                 THEN Lexed("undefined", word, end, s.nl, "extension")
                                 ELSE Lexed("word", get_extension(current_scope).ext, end,
                                            s.nl, "target_ext")
                            ELSE Lexed("fatal", word, end, s.nl, "outside_target_scope")
                       ELSE IF strstr(word, W_dep, 1)
                       THEN get_dependency(word, end, s.nl)
                       ELSE Lexed("word", word, end, s.nl, "literal")
                  ELSE IF is_define(Tail(word))
                  THEN Lexed("expand", word, orig_from, s.nl, "define")
                  ELSE Lexed("fatal", word, end, s.nl, "undefined_symbol")
             ELSE Lexed("word", word, end, s.nl, "plain")
        ELSE IF ~quotes /\ word = <<"$">>
        THEN Lexed("fatal", word, end, s.nl, "lone_dollar")
        ELSE Lexed("word", word, end, s.nl, IF quotes THEN "quoted" ELSE "plain")

\* static const char *get_word(char *buffer, size_t *from, bool
\* *newline_detected), up to the point where it returns or calls itself
\* on the expanded text: the blanks are skipped, then the word is copied
get_word(buffer, pos) ==
    The({The({whitespaces_skipped(buffer, s, r) :
                r \in {IF At(buffer, s.pos) = "\""
                       THEN ReadWord(buffer, s.pos + 1, TRUE)
                       ELSE ReadWord(buffer, s.pos, FALSE)}}) :
            s \in {SkipBlanks(buffer, pos, FALSE, FALSE)}})

\* -------------------------------------------------------------- rule engine
\* the keywords of syntax_rules[]
K_build == <<"b", "u", "i", "l", "d">>

K_target == <<"t", "a", "r", "g", "e", "t">>

K_define == <<"d", "e", "f", "i", "n", "e">>

K_as == <<"a", "s">>

K_created == <<"c", "r", "e", "a", "t", "e", "d">>

K_using == <<"u", "s", "i", "n", "g">>

K_depends == <<"d", "e", "p", "e", "n", "d", "s">>

K_on == <<"o", "n">>

W_open == <<"{">>

W_close == <<"}">>

\* static syntax_rule syntax_rules[]: keywords and recipe_list without their
\* NULL terminators, and the two callbacks ("none" where the field is NULL)
syntax_rules ==
    [DEFINE_AS |->
        [keywords |-> <<K_define, K_as>>,
         recipe_list |-> << <<"KEYWORD", "SYMBOL", "KEYWORD", "SYMBOL", "END">>,
                            <<"KEYWORD", "LIST", "KEYWORD", "SYMBOL", "END">> >>,
         symbol_callback |-> "add_define",
         scope_block_opened |-> "none"],
     BUILD |->
        [keywords |-> <<K_build>>,
         recipe_list |-> << <<"KEYWORD", "SYMBOL", "END">> >>,
         symbol_callback |-> "set_build_target",
         scope_block_opened |-> "none"],
     DEPENDS_ON |->
        [keywords |-> <<K_depends, K_on>>,
         recipe_list |-> << <<"KEYWORD", "KEYWORD", "LIST", "END">> >>,
         symbol_callback |-> "none",
         scope_block_opened |-> "depends_on_scope_block_opened"],
     CREATED_USING |->
        [keywords |-> <<K_created, K_using>>,
         recipe_list |-> << <<"KEYWORD", "KEYWORD", "LIST", "END">> >>,
         symbol_callback |-> "none",
         scope_block_opened |-> "created_using_scope_block_opened"],
     TARGET |->
        [keywords |-> <<K_target>>,
         recipe_list |-> << <<"KEYWORD", "SYMBOL", "NESTED_RULE", "END">> >>,
         symbol_callback |-> "add_target",
         scope_block_opened |-> "target_scope_block_opened"]]

\* enum rule: the order of syntax_rules[], which foreach follows
RuleOrder == <<"DEFINE_AS", "BUILD", "DEPENDS_ON", "CREATED_USING", "TARGET">>

\* The parser as one value: the statics of check_syntax and check_rule, the
\* model store, and how the step ended: "ok", "fatal" (FATAL_ERROR, with
\* its reason in why) or "undefined" (behaviour the language leaves open).
Parser ==
    [engine |-> engine, targets |-> targets, deps |-> deps, cmds |-> cmds,
     build_target |-> build_target, current_scope |-> current_scope,
     defines |-> defines, status |-> "ok", why |-> "none"]

Fail(P, status, why) == [P EXCEPT !.status = status, !.why = why]

\* static void set_build_target(const char *target)
set_build_target(word, P) ==
    IF P.build_target = NoWord
    THEN [P EXCEPT !.build_target = word]
    ELSE Fail(P, "fatal", "build_redefined")

\* static void add_target(const char *target)
add_target_NoCheck(word, P) == [P EXCEPT !.targets = Append(@, word)]

add_target(word, P) ==
    IF \E k \in 1..Len(P.targets) : P.targets[k] = word
    THEN Fail(P, "fatal", "target_redefined")
    ELSE [P EXCEPT !.targets = Append(@, word)]

\* static void add_define(const char *define)
add_define(word, P) ==
    IF P.defines.state = "GET_NAME"
    THEN [P EXCEPT !.defines.names = Append(SubSeq(@, 1, P.defines.n), word),
                   !.defines.state = "GET_VALUE"]
    ELSE [P EXCEPT !.defines.values = Append(SubSeq(@, 1, P.defines.n), word),
                   !.defines.n = @ + 1,
                   !.defines.state = "GET_NAME"]

\* static void add_symbol(syntax_rule *rule, const char *word)
add_symbol(rule, word, P) ==
    LET symbol_callback == syntax_rules[rule].symbol_callback
    IN  IF symbol_callback = "set_build_target" THEN set_build_target(word, P)
        ELSE IF symbol_callback = "add_target" THEN add_target(word, P)
        ELSE IF symbol_callback = "add_define" THEN add_define(word, P)
        ELSE P

\* rule->list of the two rules that own a table (NULL, here <<>>, for the
\* other rules)
List(rule, P) ==
    IF rule = "DEPENDS_ON" THEN P.deps
    ELSE IF rule = "CREATED_USING" THEN P.cmds
    ELSE <<>>

SetList(rule, P, list) ==
    IF rule = "DEPENDS_ON" THEN [P EXCEPT !.deps = list]
    ELSE [P EXCEPT !.cmds = list]

create_basic_tree_Fresh(dep_rule, P) ==
    IF Len(P.targets) = 0 THEN Fail(P, "undefined", "no_target")
    ELSE [SetList(dep_rule, P, [k \in 1..Len(P.targets) |-> <<>>])
            EXCEPT !.current_scope = P.targets[Len(P.targets)]]

\* static void create_basic_tree(syntax_rule *dep_rule): the first call
\* allocates one entry, a later call n_targets entries of which only the
\* last one is initialised
create_basic_tree(dep_rule, P) ==
    LET n_targets == Len(P.targets)
        list == List(dep_rule, P)
        grown == IF list = <<>> THEN << <<>> >>
                 ELSE [k \in 1..n_targets |->
                        IF k = n_targets THEN <<>>
                        ELSE IF k <= Len(list) THEN list[k]
                        ELSE Garbage]
    IN  IF n_targets = 0 THEN Fail(P, "undefined", "no_target")
        ELSE [SetList(dep_rule, P, grown) EXCEPT !.current_scope = P.targets[n_targets]]

\* enum parse_state target_scope_block_opened(void)
target_scope_block_opened(P) ==
    create_basic_tree("CREATED_USING", create_basic_tree("DEPENDS_ON", P))

scope_ClearsOnClose(rule, word, P) ==
    IF word = W_close
    THEN [ret |-> TRUE, P |-> [P EXCEPT !.engine.state = "SEARCHING",
                                        !.current_scope = NoWord]]
    ELSE [ret |-> word = W_open,
          P |-> IF word = W_open THEN target_scope_block_opened(P) ELSE P]

\* static bool scope(syntax_rule *rule, const char *word, enum parse_state
\* *state, bool *finished)
scope(rule, word, P) ==
    LET callback == syntax_rules[rule].scope_block_opened
    IN  IF word = W_open
        THEN IF callback = "none"
             THEN [ret |-> FALSE, P |-> Fail(P, "fatal", "scope_not_accepted")]
             ELSE [ret |-> TRUE,
                   P |-> [(IF callback = "target_scope_block_opened"
                           THEN target_scope_block_opened(P) ELSE P)
                          EXCEPT !.engine.state = "CHECKING"]]
        ELSE IF word = W_close
        THEN [ret |-> TRUE, P |-> [P EXCEPT !.engine.state = "SEARCHING"]]
        ELSE [ret |-> FALSE, P |-> P]

\* static bool handle_list(syntax_rule *rule, const char *word, enum
\* parse_state *state, bool newline_detected, bool *finished)
handle_list(rule, word, newline_detected, P) ==
    LET current_target == Len(P.targets)
        sc == scope(rule, word, P)
        list == List(rule, P)
        entry == list[current_target]
    IN  IF current_target = 0
        THEN [ret |-> FALSE, P |-> Fail(P, "undefined", "no_target")]
        ELSE IF sc.ret \/ sc.P.status # "ok" THEN sc
        ELSE IF list = <<>>
        THEN [ret |-> FALSE, P |-> Fail(P, "fatal", "list_error")]
        ELSE IF current_target > Len(list)
        THEN [ret |-> FALSE, P |-> Fail(P, "undefined", "list_out_of_bounds")]
        ELSE IF entry = <<>>
        THEN [ret |-> TRUE, P |-> SetList(rule, P, [list EXCEPT ![current_target] = <<word>>])]
        ELSE IF entry = Garbage
        THEN [ret |-> FALSE, P |-> Fail(P, "undefined", "list_uninitialized")]
        ELSE IF newline_detected
        THEN [ret |-> TRUE,
              P |-> SetList(rule, P, [list EXCEPT ![current_target] = Append(@, word)])]
        ELSE [ret |-> TRUE,
              P |-> SetList(rule, P,
                        [list EXCEPT ![current_target][Len(entry)] = @ \o <<" ">> \o word])]

\* check_rule: step_i, keyword_i and recipe_i of the current level are zeroed
Reset(P) ==
    LET lv == P.engine.recursion_level + 1
    IN  [P EXCEPT !.engine.step_i[lv] = 0,
                  !.engine.keyword_i[lv] = 0,
                  !.engine.recipe_i[lv] = 0]

Leave_Stays(P) == P

\* check_rule: if (recursion_level) recursion_level--;
Leave(P) ==
    IF P.engine.recursion_level > 0
    THEN [P EXCEPT !.engine.recursion_level = @ - 1]
    ELSE P

\* check_rule, after a step was taken: the rule is complete when the next
\* step is END, and is still being checked otherwise
Advance(P, next_step) ==
    IF next_step = "END"
    THEN [Leave(Reset(P)) EXCEPT !.engine.state = "SEARCHING"]
    ELSE [P EXCEPT !.engine.state = "CHECKING"]

\* check_rule, its last lines: the word does not fit the rule
NoMatch(P) == [Reset(P) EXCEPT !.engine.state = "SEARCHING"]

\* strncmp(s1, s2, n) == 0: the strings agree on their first n characters,
\* the comparison ending at a terminator they share
strncmp_equal(s1, s2, n) == \A k \in 0..(n - 1) : At(s1, k) = At(s2, k)

\* check_rule, the test of its KEYWORD step:
\* !strncmp(word, keyword, len) && len == strlen(word)
keyword_found(word, keyword) ==
    strncmp_equal(word, keyword, Len(keyword)) /\ Len(keyword) = Len(word)

\* the same test in the other copy of the program kept in the repository,
\* src/XMK.C: !strncmp(word, keyword, strlen(keyword))
keyword_found_XMK(word, keyword) == strncmp_equal(word, keyword, Len(keyword))

\* static bool check_rule(syntax_rule *rule, const char *word, enum
\* parse_state *state, bool *newline_detected).  An index past the end of
\* one of the arrays it reads is undefined behaviour.
RECURSIVE check_rule(_, _, _, _)
check_rule(rule, word, newline_detected, P) ==
    LET lv == P.engine.recursion_level + 1
        recipe_list == syntax_rules[rule].recipe_list
        keywords == syntax_rules[rule].keywords
        ri == P.engine.recipe_i[lv]
        si == P.engine.step_i[lv]
        ki == P.engine.keyword_i[lv]
        recipe == recipe_list[ri + 1]
        step == recipe[si + 1]
        Undefined(why) == [ret |-> FALSE, P |-> Fail(P, "undefined", why)]
    IN  IF P.engine.recursion_level >= MAX_RECURSION
        THEN Undefined("recursion_level_out_of_bounds")
        ELSE IF ri > Len(recipe_list) THEN Undefined("recipe_list_out_of_bounds")
        ELSE IF ri = Len(recipe_list) THEN [ret |-> FALSE, P |-> NoMatch(P)]
        ELSE IF si >= Len(recipe) THEN Undefined("recipe_out_of_bounds")
        ELSE IF step = "KEYWORD"
        THEN IF ki > Len(keywords) THEN Undefined("keywords_out_of_bounds")
             ELSE IF ki = Len(keywords) THEN [ret |-> FALSE, P |-> NoMatch(P)]
             ELSE IF keyword_found(word, keywords[ki + 1])
             THEN [ret |-> TRUE,
                   P |-> Advance([P EXCEPT !.engine.step_i[lv] = si + 1,
                                           !.engine.keyword_i[lv] = ki + 1],
                                 recipe[si + 2])]
             ELSE IF word = W_close
             THEN [ret |-> FALSE, P |-> NoMatch(Leave(P))]
             ELSE check_rule(rule, word, newline_detected,
                             [P EXCEPT !.engine.recipe_i[lv] = ri + 1])
        ELSE IF step = "NESTED_RULE"
        THEN LET entered == [P EXCEPT !.engine.recursion_level = @ + 1]
                 sc == scope(rule, word, entered)
             IN  [ret |-> TRUE, P |-> [sc.P EXCEPT !.engine.state = "SEARCHING"]]
        ELSE IF step = "SYMBOL"
        THEN LET added == add_symbol(rule, word, P)
             IN  IF added.status # "ok" THEN [ret |-> FALSE, P |-> added]
                 ELSE [ret |-> TRUE,
                       P |-> Advance([added EXCEPT !.engine.step_i[lv] = si + 1],
                                     recipe[si + 2])]
        ELSE IF step = "LIST"
        THEN handle_list(rule, word, newline_detected, P)
        ELSE [ret |-> TRUE, P |-> Advance(P, "END")]

\* check_syntax, the foreach over syntax_rules[] from the k-th rule on
RECURSIVE FirstRule(_, _, _, _)
FirstRule(k, word, newline_detected, P) ==
    IF k > Len(RuleOrder) THEN P
    ELSE The({IF r.P.status # "ok" THEN r.P
              ELSE IF r.ret THEN [r.P EXCEPT !.engine.rule_checking = RuleOrder[k]]
              ELSE FirstRule(k + 1, word, newline_detected, r.P) :
                r \in {check_rule(RuleOrder[k], word, newline_detected, P)}})

\* static int check_syntax(void), the body of its loop for one word
check_syntax(word, newline_detected, P) ==
    IF P.engine.state = "SEARCHING"
    THEN FirstRule(1, word, newline_detected, P)
    ELSE check_rule(P.engine.rule_checking, word, newline_detected, P).P

\* ---------------------------------------------------- actions of the parser
\* expand_define: new_length = before_length + value_length + after_length,
\* the size realloc is asked for
new_length(before_length, word, value) ==
    LET after_length == Len(file_buffer) - before_length - Len(word)
    IN  before_length + Len(value) + after_length

\* char *expand_define(char *buffer, const char *word), buffer being
\* &file_buffer[before_length]: the text with the word replaced by value
expand_define(before_length, word, value) ==
    SubSeq(file_buffer, 1, before_length) \o value
        \o SubSeq(file_buffer, before_length + Len(word) + 1, Len(file_buffer))

\* what a step leaves in the statics and in the model store; the process
\* ends on a FATAL_ERROR and the model stops where behaviour is undefined
Store(P) ==
    /\ engine' = P.engine
    /\ targets' = P.targets
    /\ deps' = P.deps
    /\ cmds' = P.cmds
    /\ build_target' = P.build_target
    /\ current_scope' = P.current_scope
    /\ defines' = P.defines
    /\ IF P.status = "fatal" THEN Fatal(P.why)
       ELSE IF P.status = "undefined"
       THEN /\ pc' = "undefined"
            /\ err' = P.why
            /\ UNCHANGED exit_code
       ELSE UNCHANGED <<pc, exit_code, err>>

\* check_syntax, one turn of its loop: get_word returns a word and the rule
\* engine takes it
NextWord ==
    /\ pc = "lex"
    /\ \E t \in {get_word(file_buffer, from)} :
           /\ t.kind = "word"
           /\ from' = t.pos
           /\ words' = Append(words, [word |-> t.word, why |-> t.why,
                                      newline_detected |-> t.nl,
                                      crossed |-> crossed \/ t.nl])
           /\ crossed' = FALSE
           /\ \E P \in {check_syntax(t.word, t.nl, Parser)} : Store(P)
    /\ UNCHANGED <<platform, preprocess, fs, stack, log, file_buffer, first_run,
                   keyword_step, allocated>>

\* get_word finds a define: expand_define rewrites the text and get_word
\* calls itself at orig_from.  realloc is given one byte less than strcpy
\* writes, so the terminator lands past the block: either that byte is
\* spare and the run goes on, or behaviour is undefined.  A define that
\* ends the text makes expand_define return NULL, which get_word refuses.
ExpandDefine ==
    /\ pc = "lex"
    /\ \E t \in {get_word(file_buffer, from)} :
       LET selected_i == selected_define(Tail(t.word))
           value == defines.values[selected_i + 1]
       IN  /\ t.kind = "expand"
           /\ defines' = [defines EXCEPT !.selected_i = selected_i]
           /\ from' = t.pos
           /\ crossed' = (crossed \/ t.nl)
           /\ IF At(file_buffer, t.pos + Len(t.word)) = NUL
              THEN /\ Fatal("invalid_pointers")
                   /\ UNCHANGED <<file_buffer, allocated>>
              ELSE /\ file_buffer' = expand_define(t.pos, t.word, value)
                   /\ allocated' = new_length(t.pos, t.word, value)
                   /\ \E spare \in BOOLEAN :
                        IF spare THEN UNCHANGED <<pc, exit_code, err>>
                        ELSE /\ pc' = "undefined"
                             /\ err' = "expand_define_overflow"
                             /\ UNCHANGED exit_code
    /\ UNCHANGED <<platform, preprocess, fs, stack, log, engine, targets, deps,
                   cmds, build_target, current_scope, words, first_run,
                   keyword_step>>

\* get_word ends in a FATAL_ERROR, or reads past the end of the text
LexError ==
    /\ pc = "lex"
    /\ \E t \in {get_word(file_buffer, from)} :
           /\ t.kind \in {"fatal", "undefined"}
           /\ from' = t.pos
           /\ crossed' = (crossed \/ t.nl)
           /\ IF t.kind = "fatal" THEN Fatal(t.why)
              ELSE /\ pc' = "undefined"
                   /\ err' = t.why
                   /\ UNCHANGED exit_code
    /\ UNCHANGED <<platform, preprocess, fs, stack, log, file_buffer, engine,
                   defines, targets, deps, cmds, build_target, current_scope, words,
                   first_run, keyword_step, allocated>>

\* get_word returns NULL at the end of the text and check_syntax returns 0
EndOfInput ==
    /\ pc = "lex"
    /\ \E t \in {get_word(file_buffer, from)} :
           /\ t.kind = "eof"
           /\ from' = t.pos
           /\ crossed' = (crossed \/ t.nl)
    /\ pc' = "parsed"
    /\ UNCHANGED <<platform, preprocess, fs, stack, log, file_buffer, engine,
                   defines, targets, deps, cmds, build_target, current_scope,
                   words, exit_code, err, first_run, keyword_step, allocated>>

\* parse_file with config.preprocess prints file_buffer and returns 0; the
\* program is then run on the text it printed: exec reads it into a new
\* file_buffer and check_syntax starts from zeroed statics and an empty
\* model store.  The tables of the run that printed the text are kept.
RunOnOutput ==
    /\ pc = "parsed"
    /\ preprocess
    /\ ~first_run.emitted
    /\ first_run' = [emitted |-> TRUE, targets |-> targets, deps |-> deps,
                     cmds |-> cmds]
    /\ pc' = "lex"
    /\ from' = 0
    /\ engine' = EngineInit
    /\ defines' = DefinesInit
    /\ current_scope' = NoWord
    /\ build_target' = NoWord
    /\ targets' = <<>>
    /\ deps' = <<>>
    /\ cmds' = <<>>
    /\ crossed' = FALSE
    /\ words' = <<>>
    /\ allocated' = Len(file_buffer) + 1
    /\ UNCHANGED <<platform, preprocess, fs, stack, log, file_buffer, exit_code, err,
                   keyword_step>>

NextParse ==
    \/ NextWord
    \/ ExpandDefine
    \/ LexError
    \/ EndOfInput
    \/ RunOnOutput

\* ------------------------------------------------------- texts to be parsed
MaxList == 2     \* longest dependency list written in a text
MaxDefs == 2     \* most define directives written in a text
MaxPieces == 3   \* most pieces a text is assembled from
MaxPad == 2      \* a long word is at most MaxPad characters over the limit

Sp == <<" ">>

Nl == <<"\n">>

\* the concatenation of a sequence of texts
RECURSIVE Cat(_)
Cat(ss) == IF ss = <<>> THEN <<>> ELSE ss[1] \o Cat(Tail(ss))

\* words on one line, one space between them
RECURSIVE Line(_)
Line(ws) ==
    IF ws = <<>> THEN <<>>
    ELSE IF Len(ws) = 1 THEN ws[1]
    ELSE ws[1] \o Sp \o Line(Tail(ws))

\* all sequences of at most n elements of S
UpTo(S, n) == UNION {[1..k -> S] : k \in 0..n}

N_A == <<"A">>

N_B == <<"B">>

T_t == <<"t">>

T_u == <<"u">>

Ref(name) == <<"$">> \o name

Quoted(text) == <<"\"">> \o text \o <<"\"">>

\* $(dep[n]) for one decimal digit n
DepRef(n) ==
    W_dep \o <<"[", <<"0", "1", "2", "3", "4", "5", "6", "7", "8", "9">>[n + 1], "]", ")">>

\* { item ... }: each item after a space or on a new line
Lists(toks, n) ==
    {W_open \o Cat(l) \o Sp \o W_close :
        l \in UpTo({<<sep>> \o tok : sep \in {" ", "\n"}, tok \in toks}, n)}

\* a define, then a target with a dependency list and a command list, as
\* in the example file
TargetTexts ==
    {Cat(<<Line(<<K_define, N_A, K_as, v>>), Nl,
           Line(<<K_target, T_t, W_open>>), Nl,
           Line(<<K_depends, K_on, dl>>), Nl,
           Line(<<K_created, K_using, cl>>), Nl,
           W_close, Nl>>) :
        v \in {<<"x">>, Quoted(<<"x", " ", "y">>)},
        dl \in Lists({<<"a">>, <<"b">>, Ref(N_A)}, MaxList),
        cl \in Lists({<<"c">>, Ref(N_A), W_target, DepRef(0), DepRef(1), DepRef(2)}, 1)}

\* define NAME as VALUE
DefineTexts ==
    {Line(<<K_define, n, K_as, v>>) \o Nl :
        n \in {N_A, N_B},
        v \in {<<"x">>, Ref(N_A), Ref(N_B), Quoted(Ref(N_A)), Quoted(Ref(N_B))}}

\* build WORD
BuildTexts ==
    {Line(<<K_build, w>>) \o Nl :
        w \in {T_t, Ref(N_A), Ref(N_B), Ref(Ref(N_A)), <<"$", "(", "f", "o", "o", ")">>,
               W_target, W_target_name, W_target_ext, DepRef(0)}}

\* define { NAME ... } as VALUE, the form of the second DEFINE_AS recipe
ListDefineTexts ==
    {Cat(<<Line(<<K_define, l, K_as, <<"x">>>>), Nl, b, Nl>>) :
        l \in Lists({N_A, N_B}, MaxList) \ {Line(<<W_open, W_close>>)},
        b \in {Line(<<K_build, T_t>>), Line(<<K_build, Ref(N_A)>>)}}

\* target names that contain a '.': in the middle, at the end, at the start,
\* twice, and before an extension that fills ext[] or is one character short
DottedNames ==
    {<<"a", ".", "b">>, <<"a", ".">>, <<".", "b">>, <<"a", ".", "b", ".", "c">>,
     <<"a", "b", ".", "c", "d">>}
    \cup {<<"a", ".">> \o [k \in 1..n |-> "e"] : n \in {ExtSize - 1, ExtSize}}

\* a target whose command uses $(target_name) and $(target_ext)
ScopeTexts ==
    {Cat(<<Line(<<K_target, n, W_open>>), Nl,
           Line(<<K_created, K_using, W_open, W_target_name, W_target_ext, W_close>>), Nl,
           W_close, Nl>>) :
        n \in DottedNames}

\* some defines, then at most one build directive
DirectiveTexts ==
    {Cat(ds) \o b : ds \in UpTo(DefineTexts, MaxDefs), b \in BuildTexts \cup {<<>>}}

\* headers, braces and directives in any order
Pieces ==
    {Line(<<K_target, T_t, W_open>>), Line(<<K_target, T_u, W_open, W_close>>),
     Line(<<K_target, T_t>>), W_close, Line(<<K_build, T_t>>),
     Line(<<K_depends, K_on, W_open, <<"a">>, W_close>>),
     Line(<<K_created, K_using, W_open, <<"c">>, W_close>>),
     <<"x">>, Quoted(<<>>), Line(<<K_build, W_target>>)}

PieceTexts == {Cat(ps) : ps \in UpTo({p \o Nl : p \in Pieces}, MaxPieces)}

\* one word whose length is near the size of word[], bare or quoted
LongTexts ==
    {w \o Nl : w \in {[k \in 1..n |-> "a"] : n \in (WordSize - 1 - MaxPad)..(WordSize - 1 + MaxPad)}}
    \cup {Quoted(w) \o Nl :
            w \in {[k \in 1..n |-> "a"] : n \in (WordSize - 1 - MaxPad)..(WordSize - 1 + MaxPad)}}

\* texts whose last word is not followed by a blank, and texts whose last
\* quoted string is not closed
UnendedTexts ==
    {Line(<<K_build, T_t>>), Line(<<K_build, <<"\"">> \o T_t>>), T_t, <<"\"">> \o T_t,
     Line(<<K_build, T_t>>) \o Nl \o <<"\"">>}

\* a define directive without its `as`, then a well-formed one, then a
\* build directive
MalformedDefineTexts ==
    {Cat(<<Line(<<K_define, N_A, <<"y">>>>), Nl, d, b>>) :
        d \in DefineTexts, b \in BuildTexts \cup {<<>>}}

\* a target with a dependency list, then a second target with both lists
TwoTargetTexts ==
    {Cat(<<Line(<<K_target, T_t, W_open>>), Nl,
           Line(<<K_depends, K_on, dl>>), Nl,
           W_close, Nl,
           Line(<<K_target, T_u, W_open>>), Nl,
           Line(<<K_depends, K_on, dl2>>), Nl,
           Line(<<K_created, K_using, cl>>), Nl,
           W_close, Nl>>) :
        dl \in Lists({<<"a">>, <<"b">>}, 1),
        dl2 \in Lists({<<"a">>, <<"b">>}, MaxList),
        cl \in Lists({<<"c">>}, 1)}

\* a block that is closed in the middle of a directive, then a second
\* block that holds a word no rule starts with
BrokenBlockTexts ==
    {Cat(<<Line(<<K_target, T_t, W_open>>), Nl,
           Line(<<k, W_close>>), Nl,
           Line(<<K_target, T_u, W_open>>), Nl,
           w, Nl,
           W_close, Nl>>) :
        k \in {K_depends, K_created, Line(<<K_define, N_A>>)},
        w \in {<<"x">>, Line(<<<<"x">>, <<"y">>>>)}}

Texts ==
    TargetTexts \cup DirectiveTexts \cup ListDefineTexts \cup ScopeTexts
        \cup PieceTexts \cup LongTexts \cup UnendedTexts \cup MalformedDefineTexts
        \cup TwoTargetTexts \cup BrokenBlockTexts

\* the state when check_syntax is entered: exec has read the file into
\* file_buffer and the model store is empty
InitParse ==
    /\ platform = "POSIX"
    /\ preprocess = TRUE
    /\ build_target = NoWord
    /\ targets = <<>>
    /\ deps = <<>>
    /\ cmds = <<>>
    /\ fs = [n \in NameSet |-> [exists |-> FALSE, mtime |-> 0]]
    /\ stack = <<>>
    /\ pc = "lex"
    /\ exit_code = 0
    /\ err = "none"
    /\ log = <<>>
    /\ file_buffer \in Texts
    /\ from = 0
    /\ engine = EngineInit
    /\ defines = DefinesInit
    /\ current_scope = NoWord
    /\ crossed = FALSE
    /\ words = <<>>
    /\ first_run = NoRun
    /\ keyword_step = NoStep
    /\ allocated = Len(file_buffer) + 1

SpecParse == InitParse /\ [][NextParse]_vars

\* the loop of check_syntax is the only thread of the process and nothing
\* suspends it: a step that can be taken is taken
SpecParseFair == SpecParse /\ WF_vars(NextParse)

\* ------------------------------------------ the KEYWORD step taken alone
\* The repository holds two copies of the program, src/unnamed/part_000 and
\* the older src/XMK.C, whose check_rule differ in the test of the KEYWORD
\* step.  SpecKeyword applies the test of either copy to one word and one
\* keyword of syntax_rules[].
Units == {"part_000", "XMK.C"}

\* every keyword of syntax_rules[]
Keywords ==
    UNION {{syntax_rules[r].keywords[k] : k \in 1..Len(syntax_rules[r].keywords)} :
            r \in DOMAIN syntax_rules}

\* the words get_word can hand to the step: a keyword, a keyword followed
\* by other characters, the beginning of a keyword, a brace, another word
StepWords ==
    Keywords
    \cup {k \o tl : k \in Keywords, tl \in {<<"e", "r">>, <<"s">>, W_open}}
    \cup {SubSeq(k, 1, Len(k) - 1) : k \in Keywords}
    \cup {W_open, W_close, <<"x">>}

InitKeyword ==
    /\ platform = "POSIX"
    /\ preprocess = FALSE
    /\ build_target = NoWord
    /\ targets = <<>>
    /\ deps = <<>>
    /\ cmds = <<>>
    /\ fs = [n \in NameSet |-> [exists |-> FALSE, mtime |-> 0]]
    /\ stack = <<>>
    /\ pc = "keyword"
    /\ exit_code = 0
    /\ err = "none"
    /\ log = <<>>
    /\ file_buffer = <<>>
    /\ from = 0
    /\ engine = EngineInit
    /\ defines = DefinesInit
    /\ current_scope = NoWord
    /\ crossed = FALSE
    /\ words = <<>>
    /\ first_run = NoRun
    /\ allocated = 0
    /\ keyword_step \in [unit : Units, word : StepWords, keyword : Keywords,
                          returned : {"pending"}]

\* check_rule, case KEYWORD: the test decides whether the step is taken
\* (return true) or the word is left to the next recipe
KeywordStep ==
    /\ pc = "keyword"
    /\ keyword_step.returned = "pending"
    /\ LET found == IF keyword_step.unit = "XMK.C"
                    THEN keyword_found_XMK(keyword_step.word, keyword_step.keyword)
                    ELSE keyword_found(keyword_step.word, keyword_step.keyword)
       IN  keyword_step' = [keyword_step EXCEPT
                                !.returned = IF found THEN "true" ELSE "false"]
    /\ UNCHANGED <<platform, preprocess, build_target, targets, deps, cmds, fs,
                   stack, pc, exit_code, err, log, file_buffer, from, engine,
                   defines, current_scope, crossed, words, first_run, allocated>>

NextKeyword == KeywordStep

SpecKeyword == InitKeyword /\ [][NextKeyword]_vars

ParseTypeOK ==
    /\ pc \in {"lex", "parsed", "done", "undefined"}
    /\ engine.state \in {"SEARCHING", "CHECKING"}
    /\ engine.recursion_level \in 0..MAX_RECURSION
    /\ defines.state \in {"GET_NAME", "GET_VALUE"}
    /\ from <= Len(file_buffer)

\* ------------------------------------------------------------- properties
CmdEvents == {k \in 1..Len(log) : log[k].kind = "cmd"}

\* the positions of the history where the command list of t was started
Issues(t) == {k \in CmdEvents : log[k].t = t /\ log[k].i = 1}

\* the run ended normally: main returned, or a FATAL_ERROR called exit
Terminated == pc = "done"

\* C1: when parsing succeeds, the build target is a known target, every
\* command that is run returns 0 and every built target's file exists
\* afterwards, the exit code of the program is 0.
C1_ExitZeroOnSuccess ==
    ( /\ Terminated
      /\ ~preprocess
      /\ build_target # NULL
      /\ target_exists(build_target)
      /\ err = "none"
      /\ \A k \in CmdEvents : log[k].rc = 0 /\ fs[log[k].t].exists )
    => exit_code = 0

\* C2: when a build command returns a nonzero status c, the program
\* terminates with exit code c.
C2_ExitCodeOfFailedCommand ==
    \A k \in CmdEvents :
        (Terminated /\ log[k].rc # 0) => exit_code = log[k].rc

\* the entry of the history that opened the call running at position k
\* for target t: the last "enter" of t before k
LastEnter(t, k) ==
    Max({0} \cup {e \in 1..(k - 1) : log[e].kind = "enter" /\ log[e].t = t})

\* the call of ex_build_target on target d that returned at position l ran
\* every command of d, each with status 0, after it was entered
Completed(d, l) ==
    LET e == LastEnter(d, l)
    IN  \A j \in 1..Len(cmds[target_index(d)]) :
            \E m \in (e + 1)..(l - 1) :
                log[m].kind = "cmd" /\ log[m].t = d /\ log[m].i = j /\ log[m].rc = 0

\* C3: post-order.  When a command of target T is run, every dependency of
\* T that is itself a target has been resolved by a call that was entered
\* and has returned since T was entered, and if that call found the
\* dependency's update pending, all of the dependency's commands have run
\* and completed before this command of T.
C3_PostOrder ==
    \A k \in CmdEvents :
        LET T == log[k].t
            e == LastEnter(T, k)
            tdeps == deps[target_index(T)]
        IN  /\ e > 0
            /\ \A j \in 1..Len(tdeps) :
                  target_exists(tdeps[j]) =>
                      \E l \in (e + 1)..(k - 1) :
                          /\ log[l].kind = "leave"
                          /\ log[l].t = tdeps[j]
                          /\ log[l].up => Completed(tdeps[j], l)

\* a command of "app" is run after the command of its dependency "app.o"
C3_Witness ==
    \E k, m \in CmdEvents :
        /\ m < k
        /\ log[k].t = "app"
        /\ log[m].t = "app.o"
        /\ \E j \in 1..Len(deps[target_index("app")]) :
              deps[target_index("app")][j] = "app.o"

\* the dependency loop of the running call has ended: the next step either
\* starts the command loop (update_pending) or returns without a command
LoopEnded ==
    /\ pc = "exec"
    /\ stack # <<>>
    /\ Top.phase = "deps"
    /\ Top.dep = Len(deps[Top.idx])

\* C4: under the native mtime rule, the commands of a known target T are
\* run whenever update_needed(T, d) was true for at least one dependency d
\* when d was examined, whatever the position of d in the list and whatever
\* the state of the dependencies examined after it.
C4_NeededDependencyRebuilds ==
    (platform = "WIN32" /\ LoopEnded /\ Top.seen /\ Len(cmds[Top.idx]) > 0)
        => Top.up

\* C5: if a dependency d of target T is itself a target whose update was
\* pending in this invocation, T's update is pending as well (and T's
\* commands are run), regardless of the dependencies listed after d.
C5_PendingPropagatesUpward ==
    (LoopEnded /\ Top.built /\ Len(cmds[Top.idx]) > 0) => Top.up

\* the build target and every target reachable from it exist, and no
\* dependency is newer than its dependent
UpToDate ==
    \A t \in ReachFrom(targets, deps, build_target) :
        target_exists(t) =>
            /\ fs[t].exists
            /\ \A j \in 1..Len(deps[target_index(t)]) :
                  LET d == deps[target_index(t)][j]
                  IN  fs[d].exists => fs[d].mtime <= fs[t].mtime

\* C6: from a filesystem that is up to date the executor runs no command
\* (the filesystem only changes when a command is run, so the step that
\* runs the first command is taken from the initial filesystem).
C6_NoCommandWhenUpToDate ==
    [][(UpToDate /\ CmdEvents = {}) =>
            \A k \in 1..Len(log') : log'[k].kind # "cmd"]_vars

\* C7: within one invocation the command list of any target is issued at
\* most once, also when the target is reachable through several paths
\* (stated for the runs in which every command wrote its target's file).
C7_IssuedAtMostOnce ==
    (\A k \in CmdEvents : log[k].wrote) =>
        \A t \in NameSet : Cardinality(Issues(t)) <= 1

\* the update of the running call is pending and all of its commands have
\* returned 0: the command loop has ended
CommandsDone ==
    /\ pc = "exec"
    /\ stack # <<>>
    /\ Top.phase = "cmds"
    /\ Top.i = Len(cmds[Top.idx])

\* the targets that depend on name x, directly or through other targets
DependentsOf(x) ==
    {t \in NameSet : target_exists(t) /\ t # x /\ x \in ReachFrom(targets, deps, t)}

\* C8: whenever a target's update is pending and all of its commands have
\* returned 0, the next step checks the target's file and, if it is
\* missing, ends the run with the post-build fatal error and exit code 1;
\* no command of a target that depends on it is run, before or after.
C8_PostBuildCheck ==
    /\ [][(CommandsDone /\ ~fs[Top.t].exists) =>
            /\ pc' = "done"
            /\ exit_code' = 1
            /\ err' = "post_build_missing"
            /\ log' = log]_vars
    /\ [][(CommandsDone /\ fs[Top.t].exists) => err' = "none"]_vars
    /\ [](err = "post_build_missing" =>
            /\ Terminated
            /\ \A k \in CmdEvents : log[k].t \notin DependentsOf(Top.t))

\* the post-build error is raised for a dependency whose command returned 0
\* without creating the file, while its dependent waits
C8_Witness ==
    /\ err = "post_build_missing"
    /\ Len(stack) > 1
    /\ \E k \in CmdEvents : log[k].t = Top.t /\ log[k].rc = 0

\* execute_commands is about to be called on name: by parse_file for the
\* build target, or by the dependency loop of the running call
Calling(name) ==
    \/ pc = "start" /\ ~preprocess /\ build_target = name
    \/ /\ pc = "exec"
       /\ stack # <<>>
       /\ Top.phase = "deps"
       /\ Top.dep < Len(deps[Top.idx])
       /\ deps[Top.idx][Top.dep + 1] = name

\* C9: execute_commands on a name that is neither a target nor an existing
\* file ends the run with a fatal error, no command of the dependent that
\* listed it having been run; a name that is not a target but an existing
\* file is accepted: no command is run for it and the caller goes on.
C9_UnknownNameIsFatal ==
    [][\A name \in NameSet :
        (Calling(name) /\ ~target_exists(name)) =>
            IF fs[name].exists
            THEN /\ log' = log
                 /\ err' = "none"
                 /\ IF stack = <<>>
                    THEN pc' = "done" /\ exit_code' = 0
                    ELSE /\ pc' = "exec"
                         /\ Len(stack') = Len(stack)
                         /\ stack'[Len(stack)].dep = Top.dep + 1
            ELSE /\ pc' = "done"
                 /\ exit_code' = 1
                 /\ err' = "unknown_target"
                 /\ log' = log
                 /\ stack # <<>> => \A k \in CmdEvents : log[k].t # Top.t]_vars

\* a dependency that is neither a target nor a file ends a run in which the
\* command of an earlier dependency had already been run
C9_Witness ==
    /\ err = "unknown_target"
    /\ stack # <<>>
    /\ CmdEvents # {}
    /\ ~target_exists(deps[Top.idx][Top.dep + 1])
    /\ ~fs[deps[Top.idx][Top.dep + 1]].exists

\* C10: when the input was parsed without a build directive (build_target
\* is still NULL) and preprocess-only is off, the program raises the fatal
\* error and exits with code 1 without running any command.
C10_MissingBuildIsFatal ==
    (~preprocess /\ build_target = NULL) =>
        /\ pc = "start" \/ (pc = "done" /\ exit_code = 1 /\ err = "missing_build")
        /\ stack = <<>>
        /\ log = <<>>

\* the run of an input that declares targets but no build directive has
\* ended with the fatal error
C10_Witness ==
    /\ ~preprocess
    /\ build_target = NULL
    /\ targets # <<>>
    /\ pc = "done"
    /\ err = "missing_build"

\* ------------------------------------------------- properties of the parser
\* check_syntax is about to hand the next word to the LIST step of the rule
AtList(rule) ==
    /\ pc = "lex"
    /\ engine.state = "CHECKING"
    /\ engine.rule_checking = rule
    /\ engine.recursion_level < MAX_RECURSION
    /\ LET lv == engine.recursion_level + 1
       IN  syntax_rules[rule].recipe_list[engine.recipe_i[lv] + 1][engine.step_i[lv] + 1]
                = "LIST"

\* the step handed a word to check_syntax and neither ended the run
TookWord == Len(words') = Len(words) + 1 /\ pc' = "lex"

\* the list of the current target grows by the word as the text lays it
\* out: a first word or a word after a newline is a new entry, a word on
\* the same line is added to the last entry after one space
LaidOut(entry, after, w) ==
    after = IF entry = <<>> \/ w.crossed THEN Append(entry, w.word)
            ELSE [entry EXCEPT ![Len(entry)] = @ \o Sp \o w.word]

\* C11: inside a `depends on` or `created using` list every token that a
\* newline precedes in the text starts a new entry and every token on the
\* same line is appended to the last entry after exactly one space, tokens
\* that come from the expansion of a define included.
C11_NewlineStartsEntry ==
    [][/\ (AtList("DEPENDS_ON") /\ TookWord /\ Len(targets) \in 1..Len(deps)
            /\ words'[Len(words')].word \notin {W_open, W_close})
            => LaidOut(deps[Len(targets)], deps'[Len(targets)], words'[Len(words')])
       /\ (AtList("CREATED_USING") /\ TookWord /\ Len(targets) \in 1..Len(cmds)
            /\ words'[Len(words')].word \notin {W_open, W_close})
            => LaidOut(cmds[Len(targets)], cmds'[Len(targets)], words'[Len(words')])
      ]_vars

\* the next token of the text as it is written there, bare
RawToken ==
    ReadWord(file_buffer, SkipBlanks(file_buffer, from, FALSE, FALSE).pos, FALSE).word

\* check_syntax is inside the block of a target that has its dependency list
InTargetBlock ==
    /\ pc = "lex"
    /\ current_scope # NoWord
    /\ \E k \in 1..Len(targets) : targets[k] = current_scope
    /\ Len(deps) >= Len(targets)

\* the dependencies declared so far for the current target
ScopeDeps == deps[CHOOSE k \in 1..Len(targets) : targets[k] = current_scope]

\* C12: inside a target block, for every N smaller than the number of
\* dependencies declared so far for the current target, the token
\* `$(dep[N])` yields the N-th (0-based) dependency of that target.
C12_DepYieldsNth ==
    [][\A N \in 0..9 :
        (InTargetBlock /\ RawToken = DepRef(N) /\ N < Len(ScopeDeps))
            => /\ Len(words') = Len(words) + 1
               /\ words'[Len(words')].word = ScopeDeps[N + 1]
      ]_vars

\* C13: `$(dep[N])` with N greater than or equal to the number of
\* dependencies of the current target is a fatal error, N = 0 on a target
\* without dependencies included; it never returns a dependency string.
C13_DepOutOfRangeIsFatal ==
    [][\A N \in 0..9 :
        (InTargetBlock /\ RawToken = DepRef(N) /\ N >= Len(ScopeDeps))
            => /\ pc' = "done" /\ exit_code' = 1
               /\ words' = words
      ]_vars

\* the next token of the text without the quotes it may be written in
RawValue ==
    LET p == SkipBlanks(file_buffer, from, FALSE, FALSE).pos
        quotes == At(file_buffer, p) = "\""
    IN  ReadWord(file_buffer, IF quotes THEN p + 1 ELSE p, quotes).word

\* check_syntax has read `define NAME as` and the text goes on with VALUE
AtDefineValue ==
    /\ pc = "lex"
    /\ engine.state = "CHECKING"
    /\ engine.rule_checking = "DEFINE_AS"
    /\ engine.recursion_level < MAX_RECURSION
    /\ LET lv == engine.recursion_level + 1
       IN  /\ engine.recipe_i[lv] = 0
           /\ engine.step_i[lv] = 3
    /\ defines.state = "GET_VALUE"
    /\ ~SkipBlanks(file_buffer, from, FALSE, FALSE).eof

\* C14: reading the VALUE of `define NAME as VALUE` expands or resolves no
\* `$`-reference of VALUE, quoted or not: the step that reads VALUE stores
\* its text as written, also when it refers to a define declared later.
C14_DefineValueStoredUnexpanded ==
    [][AtDefineValue
        => /\ defines'.n = defines.n + 1
           /\ defines'.values[defines'.n] = RawValue
           /\ file_buffer' = file_buffer
           /\ pc' = "lex"
      ]_vars

\* C15: parsing the preprocessed text, that is the text a preprocess-only
\* run emits after all define expansions, yields the same target table,
\* dependency lists and command lists as parsing the original program.
C15_ReparseSameTables ==
    (pc = "parsed" /\ first_run.emitted)
        => /\ targets = first_run.targets
           /\ deps = first_run.deps
           /\ cmds = first_run.cmds

\* the step ends the run in a FATAL_ERROR and hands no word to check_syntax
FatalStep == pc' = "done" /\ exit_code' = 1 /\ words' = words

\* C16: while no target block has been entered (current_scope is unset),
\* each of `$(target)`, `$(target_name)`, `$(target_ext)` and `$(dep[N])`
\* is a fatal error; none of them is returned to the rule engine as a word.
C16_ScopeVariablesNeedScope ==
    [][(/\ pc = "lex"
        /\ current_scope = NoWord
        /\ RawToken \in {W_target, W_target_name, W_target_ext}
                            \cup {DepRef(N) : N \in 0..9})
            => FatalStep
      ]_vars

\* C17: an unquoted word `$X`, X not empty and not starting with `$`, where
\* X is neither a defined name nor one of the built-ins (target),
\* (target_name), (target_ext), (dep[N]), is a fatal error; it is never
\* returned as a literal word.
C17_UnknownDollarWordIsFatal ==
    [][(/\ pc = "lex"
        /\ Len(RawToken) > 1
        /\ RawToken[1] = "$"
        /\ RawToken[2] # "$"
        /\ \A k \in 1..defines.n : defines.names[k] # Tail(RawToken)
        /\ RawToken \notin {W_target, W_target_name, W_target_ext}
                            \cup {DepRef(N) : N \in 0..9})
            => FatalStep
      ]_vars

\* the number of bytes of the next word of the text: up to the next blank,
\* or between its quotes
TokenLength ==
    LET p == SkipBlanks(file_buffer, from, FALSE, FALSE).pos
        quotes == At(file_buffer, p) = "\""
        start == IF quotes THEN p + 1 ELSE p
        Ends(q) == IF quotes THEN At(file_buffer, q) \in {"\"", NUL}
                   ELSE At(file_buffer, q) \in Blank \cup {NUL}
    IN  (CHOOSE q \in start..Max({start, Len(file_buffer)}) :
            Ends(q) /\ \A r \in start..(q - 1) : ~Ends(r)) - start

\* C18: a word of exactly 254 bytes is returned by get_word as a word; a
\* word of 255 bytes or more is a fatal error.
C18_WordOf254Accepted ==
    [][/\ (pc = "lex" /\ TokenLength = WordSize - 1)
            => /\ Len(words') = Len(words) + 1
               /\ Len(words'[Len(words')].word) = WordSize - 1
       /\ (pc = "lex" /\ TokenLength >= WordSize) => FatalStep
      ]_vars

\* check_syntax has read `target` and the text goes on with the name
AtTargetName ==
    /\ pc = "lex"
    /\ engine.state = "CHECKING"
    /\ engine.rule_checking = "TARGET"
    /\ engine.recursion_level < MAX_RECURSION
    /\ LET lv == engine.recursion_level + 1
       IN  /\ engine.recipe_i[lv] = 0
           /\ engine.step_i[lv] = 1

\* C19: in every reachable parser state the target table holds no two
\* equal names: a `target NAME` header whose NAME is already in the table
\* ends the run in a fatal error, and the table only grows by the name of
\* a header, at its end, so that a target's index is the position of its
\* header among the headers of the text.
C19_UniqueTargetsInOrder ==
    /\ [](\A j, k \in 1..Len(targets) : targets[j] = targets[k] => j = k)
    /\ [][pc = "lex" =>
            IF AtTargetName /\ Len(words') = Len(words) + 1
            THEN LET name == words'[Len(words')].word
                 IN  IF \E k \in 1..Len(targets) : targets[k] = name
                     THEN pc' = "done" /\ exit_code' = 1 /\ targets' = targets
                     ELSE targets' = Append(targets, name) /\ pc' = "lex"
            ELSE targets' = targets
         ]_vars

\* a header names a target that is already in a table of two targets
C19_Witness ==
    /\ pc = "done"
    /\ err = "target_redefined"
    /\ Len(targets) = 2
    /\ words # <<>>
    /\ \E k \in 1..Len(targets) : targets[k] = words[Len(words)].word

\* C20: after parsing any text that is consumed to its end without a fatal
\* error, the target table, the dependency table and the command table
\* have the same number of entries.
C20_TablesSameLength ==
    pc = "parsed" => Len(deps) = Len(targets) /\ Len(cmds) = Len(targets)

\* ---------------------------------------- properties of the executor, again
\* the running call of ex_build_target is on a target with no dependency
\* and at least one command
NoDepsSomeCommands ==
    /\ pc = "exec"
    /\ stack # <<>>
    /\ Len(deps[Top.idx]) = 0
    /\ Len(cmds[Top.idx]) > 0

\* C21: a target with no dependencies and at least one command has its
\* commands run if and only if its file does not exist when the target is
\* examined: with the file missing the command loop is entered and its
\* first command is spawned, with the file present the call returns without
\* a command.
C21_NoDepsBuiltIffMissing ==
    /\ [][(NoDepsSomeCommands /\ Top.phase = "deps") =>
            IF ~fs[Top.t].exists
            THEN /\ Len(stack') = Len(stack)
                 /\ stack'[Len(stack)].phase = "cmds"
                 /\ pc' = "exec"
            ELSE /\ log' = Append(log, Event("leave", Top.t, 0, 0, FALSE, TRUE, FALSE))
                 /\ Len(stack') < Len(stack) \/ pc' = "done"]_vars
    /\ [][(NoDepsSomeCommands /\ Top.phase = "cmds" /\ Top.i = 0) =>
            /\ ~fs[Top.t].exists
            /\ Len(log') = Len(log) + 1
            /\ log'[Len(log')].kind = "cmd"
            /\ log'[Len(log')].t = Top.t
            /\ log'[Len(log')].i = 1]_vars

\* the command of "app.o", a target without dependencies whose file was
\* missing, has been run while its dependent waits
C21_Witness ==
    /\ Len(stack) > 1
    /\ NoDepsSomeCommands
    /\ Top.t = "app.o"
    /\ \E k \in CmdEvents : log[k].t = "app.o" /\ log[k].i = 1

\* C22: with preprocess-only set the resolver is never invoked and no
\* command is executed, whatever the input declares; once the parse has
\* returned the program exits with code 0.
C22_PreprocessRunsNothing ==
    preprocess =>
        /\ stack = <<>>
        /\ log = <<>>
        /\ pc \in {"start", "done"}
        /\ pc = "done" => (exit_code = 0 /\ err = "none")

\* a preprocess-only run has ended on an input whose build target has a
\* command and no file
C22_Witness ==
    /\ preprocess
    /\ pc = "done"
    /\ build_target # NULL
    /\ target_exists(build_target)
    /\ Len(cmds[target_index(build_target)]) > 0
    /\ ~fs[build_target].exists

\* C23: a KEYWORD step matches a word only when the word is exactly equal
\* to the expected keyword, in every keyword-matching path of the rule
\* engine; a word that merely begins with the keyword does not match.
C23_KeywordMatchIsExact ==
    keyword_step.returned = "true" => keyword_step.word = keyword_step.keyword

\* C25: in every build configuration (WIN32 and POSIX) update_needed(target,
\* dep) returns true exactly when either file is missing or the dependency
\* is newer than the target.  Checked where ex_build_target calls it: on the
\* step that examines a dependency that is a plain file, the first time the
\* call returns true in the running frame.
C25_UpdateNeededComparesTimes ==
    [][(/\ pc = "exec"
        /\ stack # <<>>
        /\ Top.phase = "deps"
        /\ ~Top.seen
        /\ pc' = "exec"
        /\ Len(stack') = Len(stack)
        /\ stack'[Len(stack)].dep = Top.dep + 1) =>
            LET d == deps[Top.idx][Top.dep + 1]
            IN  stack'[Len(stack)].seen =
                    (\/ ~fs[d].exists
                     \/ ~fs[Top.t].exists
                     \/ fs[d].mtime > fs[Top.t].mtime)]_vars

\* C26: after a command returns a nonzero exit status no further command
\* is executed in this invocation, neither of the same target nor of any
\* other: the failed command is the last entry of the history and the run
\* has ended.
C26_NoCommandAfterFailure ==
    \A k \in CmdEvents :
        log[k].rc # 0 =>
            /\ k = Len(log)
            /\ pc \in {"done", "crashed"}
            /\ pc = "done" => (err = "command_failed" /\ exit_code = 1)

\* the first of two commands of a dependency has failed while its dependent,
\* which has a command too, waits
C26_Witness ==
    /\ pc = "done"
    /\ err = "command_failed"
    /\ Len(stack) > 1
    /\ Len(cmds[Top.idx]) > 1
    /\ Top.i = 0
    /\ Len(cmds[stack[1].idx]) > 0
    /\ log[Len(log)].kind = "cmd"
    /\ log[Len(log)].rc # 0

\* t is a target with at least one dependency, no command and no file
Hollow(t) ==
    /\ target_exists(t)
    /\ Len(deps[target_index(t)]) > 0
    /\ Len(cmds[target_index(t)]) = 0
    /\ ~fs[t].exists

\* C29: a target that has at least one dependency, no command, and whose
\* own file does not exist always ends in the fatal post-build error once
\* its dependencies are resolved: its update is pending, no command is run
\* and the missing file is fatal; a run whose build target is such a target
\* never completes successfully.
C29_HollowTargetIsFatal ==
    /\ [][(LoopEnded /\ Hollow(Top.t)) =>
            /\ Top.up
            /\ pc' = "exec"
            /\ Len(stack') = Len(stack)
            /\ stack'[Len(stack)].phase = "cmds"
            /\ log' = log]_vars
    /\ [][(pc = "exec" /\ stack # <<>> /\ Top.phase = "cmds" /\ Hollow(Top.t)) =>
            /\ pc' = "done"
            /\ exit_code' = 1
            /\ err' = "post_build_missing"
            /\ log' = log]_vars
    /\ []((~preprocess /\ build_target # NULL /\ pc = "done" /\ Hollow(build_target))
            => (exit_code = 1 /\ err # "none"))

\* the post-build error has ended the run on such a target, one of whose
\* dependencies is a target that was found up to date
C29_Witness ==
    /\ pc = "done"
    /\ err = "post_build_missing"
    /\ stack # <<>>
    /\ Hollow(Top.t)
    /\ \E k \in 1..Len(log) :
        /\ log[k].kind = "leave"
        /\ ~log[k].up
        /\ \E j \in 1..Len(deps[Top.idx]) : deps[Top.idx][j] = log[k].t

\* ------------------------------------ properties of the tokenizer, again
\* C24: every call of get_word that returns a word leaves the cursor
\* strictly greater than it was when the call started (an expansion inside
\* the call rewrites the text from the cursor on and never moves the cursor
\* back); the call returns end-of-input only with the cursor on the
\* terminator, having returned no word.
C24_WordAdvancesCursor ==
    [][pc = "lex" =>
         /\ from' >= from
         /\ Len(words') > Len(words) => from' > from
         /\ pc' = "parsed" => (At(file_buffer, from') = NUL /\ words' = words)
         /\ SubSeq(file_buffer', 1, from') = SubSeq(file_buffer, 1, from')]_vars

\* a call that skipped a newline and expanded a define has returned its word
C24_Witness ==
    /\ pc = "lex"
    /\ words # <<>>
    /\ from > 0
    /\ words[Len(words)].crossed
    /\ ~words[Len(words)].newline_detected

\* ---------------------------------- properties of the rule engine, again
\* C27: for every token sequence, a `target NAME {` header inside another
\* target's block included, the nesting level that indexes step_i,
\* keyword_i and recipe_i stays below MAX_RECURSION, the size of those
\* arrays.
C27_NestingLevelInBounds == engine.recursion_level < MAX_RECURSION

\* the words taken so far are those of a directive `define { ... } as VALUE`
ListDirective ==
    /\ Len(words) >= 6
    /\ words[1].word = K_define
    /\ words[2].word = W_open
    /\ \E k \in 4..Len(words) :
        /\ words[k].word = W_close
        /\ \A j \in 3..(k - 1) : words[j].word \notin {W_open, W_close}
        /\ Len(words) >= k + 2
        /\ words[k + 1].word = K_as

\* C28: a directive of the form `define { A B } as X` is accepted by the
\* rule engine through the second DEFINE_AS recipe (KEYWORD LIST KEYWORD
\* SYMBOL END), tried from its beginning, and adds exactly one entry to the
\* define table.
C28_ListDefineAddsOneEntry ==
    (ListDirective /\ pc \in {"lex", "parsed"}) =>
        /\ defines.n = 1
        /\ defines.state = "GET_NAME"

\* the positions of the '.' characters of a name
Dots(s) == {k \in 1..Len(s) : s[k] = "."}

\* the characters of s before and after its first '.'
BeforeDot(s) == SubSeq(s, 1, (CHOOSE d \in Dots(s) : \A e \in Dots(s) : d <= e) - 1)

AfterDot(s) == SubSeq(s, (CHOOSE d \in Dots(s) : \A e \in Dots(s) : d <= e) + 1, Len(s))

\* C30: for every current scope name s that contains a '.', $(target_name)
\* yields the characters of s before its first '.', $(target_ext) yields
\* the characters of s after its first '.' (the empty string when the '.'
\* is the last character), and name, '.', ext concatenated give s back.
C30_NameDotExtIsScope ==
    (Len(targets) = 1 /\ current_scope # NoWord /\ Dots(current_scope) # {}) =>
        /\ \A k \in 1..Len(words) :
              words[k].why = "target_name" => words[k].word = BeforeDot(current_scope)
        /\ \A k \in 1..Len(words) :
              words[k].why = "target_ext" => words[k].word = AfterDot(current_scope)
        /\ \A j, k \in 1..Len(words) :
              (words[j].why = "target_name" /\ words[k].why = "target_ext") =>
                  words[j].word \o <<".">> \o words[k].word = current_scope
        /\ ~(pc = "undefined" /\ err = "extension")

\* ------------------------------------------- properties of the parser, again
\* check_syntax is about to hand the next word to the NESTED_RULE step of
\* the TARGET rule: `target NAME` has been read
AtNestedRule ==
    /\ pc = "lex"
    /\ engine.state = "CHECKING"
    /\ engine.rule_checking = "TARGET"
    /\ engine.recursion_level < MAX_RECURSION
    /\ LET lv == engine.recursion_level + 1
       IN  syntax_rules["TARGET"].recipe_list[engine.recipe_i[lv] + 1][engine.step_i[lv] + 1]
                = "NESTED_RULE"

C32_NeverReadsPastSentinel ==
    /\ from <= Len(file_buffer)
    /\ err # "read_past_end"

\* C33: after every define expansion the size allocated for the text is
\* at least the length of the new text plus one byte for the terminating
\* '\0', so that writing the spliced text stays inside the allocation.
C33_AllocationHoldsSentinel ==
    /\ pc \in {"lex", "parsed", "done", "undefined"} => allocated >= Len(file_buffer) + 1
    /\ err # "expand_define_overflow"

\* ---------------------------------------- properties of the executor, last
\* C34: no command string is printed or passed to the shell after it has
\* been freed: whatever the dependency graph and the filesystem, a command
\* that has run and was freed is not read, run or freed again later in the
\* invocation.
C34_NoCommandAfterFree ==
    /\ pc # "crashed"
    /\ \A k \in 1..Len(log) : log[k].kind \in {"cmd", "crash"} => log[k].live

\* ------------------------------------------- properties of the parser, last
\* the words returned so far hold, from the j-th on, `define NAME as VALUE`
DefineAt(j) ==
    /\ j + 3 <= Len(words)
    /\ words[j].word = K_define
    /\ words[j + 2].word = K_as

\* C35: for every token sequence, each entry of the define table pairs the
\* symbol that followed a `define` keyword with the symbol that followed
\* the `as` of that same directive; a define without `as` adds no entry
\* and does not shift the names and values of the directives after it.
C35_DefineTablePairsNameAndValue ==
    pc \in {"lex", "parsed"} =>
        \A k \in 1..defines.n :
            \E j \in 1..Len(words) :
                /\ DefineAt(j)
                /\ defines.names[k] = words[j + 1].word
                /\ defines.values[k] = words[j + 3].word

\* C36: tokenizing terminates on every finite text: get_word reaches the
\* end of the input after finitely many calls and finitely many define
\* expansions, also when the value of a define refers to its own name or
\* to a define whose value refers back to it.
C36_TokenizingTerminates == <>(pc # "lex")

\* C37: for every acyclic dependency graph and every outcome of the
\* commands, execute_commands on the build target terminates, either
\* normally or with a fatal error.
C37_ExecutorTerminates == <>(pc = "done")

\* C38: a list entry is added to the dependency list or to the command
\* list of the most recently registered target only: no word that is
\* processed changes the dependency list or the command list of an earlier
\* target, the `{` that opens the block of a later target included.
C38_EarlierListsUnchanged ==
    [][pc = "lex" =>
        \A k \in 1..(Len(targets') - 1) :
            /\ k <= Len(deps) => (k <= Len(deps') /\ deps'[k] = deps[k])
            /\ k <= Len(cmds) => (k <= Len(cmds') /\ cmds'[k] = cmds[k])
      ]_vars

\* the second target has got its dependencies and a command after the
\* first one got its dependency
C38_Witness ==
    /\ pc = "lex"
    /\ Len(targets) = 2
    /\ Len(deps) = 2
    /\ Len(cmds) = 2
    /\ deps[1] # <<>>
    /\ Len(deps[2]) = 2
    /\ cmds[2] # <<>>

\* the first keyword of every rule: the words that match the first step
\* of a rule
FirstKeywords == {syntax_rules[r].keywords[1] : r \in DOMAIN syntax_rules}

\* C39: a token other than `}` that matches the first step of no rule
\* while the engine is SEARCHING is discarded: it raises no error, leaves
\* the build target, the target table, the dependency lists, the command
\* lists and the define table unchanged, and leaves the engine SEARCHING
\* at the same nesting level.
C39_UnmatchedTokenIsDiscarded ==
    [][(/\ pc = "lex"
        /\ engine.state = "SEARCHING"
        /\ Len(words') = Len(words) + 1
        /\ words'[Len(words')].word \notin FirstKeywords \cup {W_close})
            => /\ pc' = "lex"
               /\ build_target' = build_target
               /\ targets' = targets
               /\ deps' = deps
               /\ cmds' = cmds
               /\ defines' = defines
               /\ engine'.state = "SEARCHING"
               /\ engine'.recursion_level = engine.recursion_level
      ]_vars

\* The grammar of the input file, read word by word: where a reader of
\* the grammar stands after word w when it stood at m before it.  A SYMBOL
\* is any word but a brace and a list item any word but `}`.
Follow(m, w) ==
    LET Symbol == w \notin {W_open, W_close}
    IN  CASE m = "program" ->
                IF w = K_build THEN "build"
                ELSE IF w = K_define THEN "define"
                ELSE IF w = K_target THEN "target"
                ELSE "none"
          [] m = "build" -> IF Symbol THEN "program" ELSE "none"
          [] m = "define" ->
                IF w = W_open THEN "names" ELSE IF Symbol THEN "named" ELSE "none"
          [] m = "names" -> IF Symbol THEN "more names" ELSE "none"
          [] m = "more names" ->
                IF w = W_close THEN "named" ELSE IF Symbol THEN "more names" ELSE "none"
          [] m = "named" -> IF w = K_as THEN "as" ELSE "none"
          [] m = "as" -> IF Symbol THEN "program" ELSE "none"
          [] m = "target" -> IF Symbol THEN "header" ELSE "none"
          [] m = "header" -> IF w = W_open THEN "body" ELSE "none"
          [] m = "body" ->
                IF w = K_depends THEN "depends"
                ELSE IF w = K_created THEN "created"
                ELSE IF w = W_close THEN "program"
                ELSE "none"
          [] m = "depends" -> IF w = K_on THEN "list header" ELSE "none"
          [] m = "created" -> IF w = K_using THEN "list header" ELSE "none"
          [] m = "list header" -> IF w = W_open THEN "list" ELSE "none"
          [] m = "list" ->
                IF w = W_close THEN "body" ELSE IF w = W_open THEN "none" ELSE "list"
          [] OTHER -> "none"

\* where the reader of the grammar stands after the first n words returned:
\* "program" when they are a whole program, "none" when they follow no
\* program
RECURSIVE Reading(_)
Reading(n) == IF n = 0 THEN "program" ELSE Follow(Reading(n - 1), words[n].word)

\* the words returned so far end inside the block of a target
InBody == Reading(Len(words)) \in {"body", "depends", "created", "list header", "list"}

====
